---- MODULE Spec2Model ----
(***************************************************************************)
(* Client-side secure document cache of the FOI redaction tool:            *)
(* EncryptionService (src/src/services/encryption.service.ts) and the      *)
(* application store's panicClear (src/README.md).                         *)
(*                                                                         *)
(* Every async method is split at its awaits: the part that runs           *)
(* synchronously when the method is called, and one continuation per       *)
(* await.  Calls in flight live in `calls`.                                *)
(***************************************************************************)
EXTENDS Integers, Sequences, FiniteSets, Bags, TLC

VARIABLES
    sessionKey,     \* EncryptionService.sessionKey (NoKey models null)
    localStorage,   \* window.localStorage: storage key -> stored value
    now,            \* the wall clock, Date.now(), in milliseconds
    calls,          \* async calls in flight (a bag of call records)
    nextKey,        \* number of session keys generated so far
    ops,            \* number of operations started and clock advances so far
    store,          \* useAppStore state (user, documents, ...)
    encryptedUnder, \* history: per document id, the key handed to the
                    \* cipher for the entry now stored (0: none)
    last,           \* the most recent step of an operation and its outcome
    currentUser,    \* AuthService.currentUser ("null" or a user id)
    tokens,         \* AuthService.tokens (NoTokens models null)
    issued,         \* number of token sets generated so far
    events,         \* AuditService.events, newest first
    hash,           \* the latest generateHash and verifyHash calls
    docs,           \* the Document objects of the store: id -> versions,
                    \* currentVersion and hash (NoDocument: not in the store)
    versionControl, \* the VersionControl component: isProcessing and the
                    \* handler that is running
    inFlightAtClear \* history: the calls that were in flight when the
                    \* latest successful panicClear finished (kept where
                    \* the specification tracks it)

\* the state of AuthService and AuditService
authVars == <<currentUser, tokens, issued, events>>

\* the documents and the component that manages their versions
docVars == <<docs, versionControl>>

vars == <<sessionKey, localStorage, now, calls, nextKey, ops, store,
          encryptedUnder, last, authVars, hash, docVars, inFlightAtClear>>

----------------------------------------------------------------------------
(* Bounds *)

MaxOps == 3        \* operations started and clock advances in one behaviour
MaxCalls == 2      \* async calls in flight at the same time
MaxHashLen == 2    \* length of the byte sequences that are hashed

----------------------------------------------------------------------------
(* Program constants *)

CACHE_PREFIX == "foi_secure_"
SESSION_DURATION == 8 * 60 * 60 * 1000
APP_STORAGE_KEY == "foi-app-storage"

----------------------------------------------------------------------------
(* Inputs *)

DocIds == {"doc-1", "doc-2"}

\* the empty string, which cacheDocument accepts as a documentId like any other
EmptyId == ""

\* the ids that can name an entry in storage
AllIds == DocIds \cup {EmptyId}

\* data: string | ArrayBuffer.  A string is a sequence of code points, an
\* ArrayBuffer a sequence of bytes.
DataInputs ==
    { [isString |-> FALSE, val |-> <<255>>],
      [isString |-> TRUE,  val |-> <<233>>] }

----------------------------------------------------------------------------
(* Platform conversions used by the service *)

Pad == 64          \* the '=' character of base64
BadChar == 65      \* any character outside the base64 alphabet

\* new TextEncoder().encode(s): UTF-8, code points below 0x800
RECURSIVE Utf8Encode(_)
Utf8Encode(s) ==
    IF Len(s) = 0 THEN <<>>
    ELSE LET cp == Head(s) IN
         (IF cp < 128 THEN <<cp>>
          ELSE <<192 + (cp \div 64), 128 + (cp % 64)>>)
         \o Utf8Encode(Tail(s))

\* btoa(String.fromCharCode(...bytes))
RECURSIVE Base64Encode(_)
Base64Encode(s) ==
    IF Len(s) = 0 THEN <<>>
    ELSE IF Len(s) = 1 THEN
        <<s[1] \div 4, (s[1] % 4) * 16, Pad, Pad>>
    ELSE IF Len(s) = 2 THEN
        <<s[1] \div 4, (s[1] % 4) * 16 + (s[2] \div 16), (s[2] % 16) * 4, Pad>>
    ELSE
        <<s[1] \div 4, (s[1] % 4) * 16 + (s[2] \div 16),
          (s[2] % 16) * 4 + (s[3] \div 64), s[3] % 64>>
        \o Base64Encode(SubSeq(s, 4, Len(s)))

StripPad(s) ==
    IF Len(s) > 0 /\ Len(s) % 4 = 0 /\ s[Len(s)] = Pad
    THEN IF s[Len(s) - 1] = Pad THEN SubSeq(s, 1, Len(s) - 2)
                                ELSE SubSeq(s, 1, Len(s) - 1)
    ELSE s

\* atob(s) throws InvalidCharacterError
Base64Invalid(s) ==
    LET t == StripPad(s) IN
        \/ Len(t) % 4 = 1
        \/ \E i \in 1..Len(t) : t[i] >= Pad

RECURSIVE DecodeSextets(_)
DecodeSextets(t) ==
    IF Len(t) < 2 THEN <<>>
    ELSE IF Len(t) = 2 THEN <<t[1] * 4 + (t[2] \div 16)>>
    ELSE IF Len(t) = 3 THEN
        <<t[1] * 4 + (t[2] \div 16), (t[2] % 16) * 16 + (t[3] \div 4)>>
    ELSE
        <<t[1] * 4 + (t[2] \div 16), (t[2] % 16) * 16 + (t[3] \div 4),
          (t[3] % 4) * 64 + t[4]>>
        \o DecodeSextets(SubSeq(t, 5, Len(t)))

\* atob(s).split('').map(char => char.charCodeAt(0))
Base64Decode(s) == DecodeSextets(StripPad(s))

\* AES-GCM, abstracted: the ciphertext is the plaintext shifted by a
\* keystream byte that depends on key and iv, followed by an authentication
\* tag that binds key and iv.
TagLen == 2
Keystream(key, iv) == (key * 16 + iv[1]) % 256
AuthTag(key, iv) == <<key, iv[1]>>

\* crypto.subtle.encrypt({name: 'AES-GCM', iv}, key, bytes)
SubtleEncrypt(key, iv, bytes) ==
    [i \in 1..Len(bytes) |-> (bytes[i] + Keystream(key, iv)) % 256]
    \o AuthTag(key, iv)

\* crypto.subtle.decrypt rejects (OperationError)
SubtleDecryptFails(key, iv, ct) ==
    \/ Len(ct) < TagLen
    \/ SubSeq(ct, Len(ct) - TagLen + 1, Len(ct)) # AuthTag(key, iv)

\* crypto.subtle.decrypt({name: 'AES-GCM', iv}, key, ct), when it resolves
SubtleDecrypt(key, iv, ct) ==
    [i \in 1..(Len(ct) - TagLen) |-> (ct[i] - Keystream(key, iv)) % 256]

\* SHA-256, abstracted: a digest of fixed length in which every input byte
\* and the input length take part; no two inputs shorter than DigestLen
\* bytes have the same digest
DigestLen == 4

RECURSIVE Absorb(_, _, _)
Absorb(h, bytes, i) ==
    IF i > Len(bytes) THEN h
    ELSE LET lane == ((i - 1) % (DigestLen - 1)) + 1 IN
         Absorb([h EXCEPT ![lane] = (@ + bytes[i]) % 256,
                          ![DigestLen] = (@ + 1) % 256],
                bytes, i + 1)

\* crypto.subtle.digest('SHA-256', data)
Sha256(bytes) == Absorb([j \in 1..DigestLen |-> 0], bytes, 1)

----------------------------------------------------------------------------
(* Values *)

NoKey == [key |-> 0, iv |-> <<>>, sessionId |-> 0]

\* the n-th key produced by initializeSession: generateKey, getRandomValues
\* and uuidv4 all return fresh values
NewSessionKey(n) == [key |-> n, iv |-> <<(n * 37) % 256>>, sessionId |-> n]

NoEntry == [kind |-> "none", documentId |-> "", encryptedData |-> <<>>,
            iv |-> <<>>, timestamp |-> 0, expiresAt |-> 0]

\* a stored string that JSON.parse rejects
Garbage == [kind |-> "garbage", documentId |-> "", encryptedData |-> <<>>,
            iv |-> <<>>, timestamp |-> 0, expiresAt |-> 0]

\* storage keys are a prefix and the rest of the string
CacheKey(documentId) == <<CACHE_PREFIX, documentId>>
AppKey == <<"", APP_STORAGE_KEY>>
StorageKeys == {CacheKey(id) : id \in AllIds} \cup {AppKey}

StartsWithPrefix(k) == k[1] = CACHE_PREFIX
StripPrefix(k) == k[2]

\* Object.keys(localStorage)
StoredKeys == {k \in StorageKeys : localStorage[k].kind # "none"}

\* a call in flight: key is the session key the call read when it started
\* its cryptographic operation; hit and out are what that operation yields
IdleCall == [op |-> "idle", pc |-> "idle", id |-> "", bytes |-> <<>>,
             key |-> NoKey, hit |-> FALSE, out |-> <<>>, code |-> ""]

\* a new call can be started
CanCall == ops < MaxOps /\ BagCardinality(calls) < MaxCalls
InFlight == BagToSet(calls)
Start(c) == calls (+) SetToBag({c})
Settle(c) == calls (-) SetToBag({c})
Step(c, d) == (calls (-) SetToBag({c})) (+) SetToBag({d})

\* outcome of a call, as the caller of the promise sees it; before is the
\* value stored for id when the step began, wiped the ids a bulk wipe removed
Outcome(op, id, status, code, bytes, before, wiped) ==
    [op |-> op, id |-> id, status |-> status, code |-> code, bytes |-> bytes,
     before |-> before, wiped |-> wiped]

NoOutcome == Outcome("none", "", "none", "", <<>>, NoEntry, {})

InitialStore == [user |-> "null", isAuthenticated |-> FALSE,
                 documents |-> {}, currentDocument |-> "null"]

\* AuthService.tokens = null
NoTokens == [sub |-> "null", serial |-> 0]

\* a document id that is not in the store's documents
NoDocument == [versions |-> <<>>, currentVersion |-> "none", hash |-> <<>>]

\* the store with no document in it
NoDocuments == [id \in DocIds |-> NoDocument]

\* the VersionControl component with no handler running: isProcessing is
\* false.  document, versions and user are what the closure of the running
\* handler captured: currentDocument.id, currentDocument.versions and the
\* user the permissions were computed for
IdleComponent == [isProcessing |-> FALSE, handler |-> "none", pc |-> "idle",
                  document |-> "null", versions |-> <<>>, user |-> "null"]

\* no generateHash or verifyHash call made yet
NoHash == [data |-> <<>>, digest |-> <<>>, checked |-> <<>>,
           expected |-> <<>>, verified |-> FALSE]

----------------------------------------------------------------------------
(* Read-only queries *)

\* EncryptionService.getCachedDocumentIds
getCachedDocumentIds ==
    {StripPrefix(k) : k \in {j \in StoredKeys : StartsWithPrefix(j)}}

\* EncryptionService.getSessionInfo
getSessionInfo ==
    [sessionId |-> IF sessionKey # NoKey THEN sessionKey.sessionId ELSE 0,
     hasKey |-> sessionKey # NoKey]

----------------------------------------------------------------------------
(* Pure parts of the methods *)

\* (variant) an entry counts as expired at expiresAt already
Expired_atExpiry(cache, t) == t >= cache.expiresAt

\* new Date() > new Date(cache.expiresAt)
Expired(cache, t) == t > cache.expiresAt

\* (variant) a rejected decryption is not noticed
DecryptDataFails_unchecked(sk, encryptedData) ==
    \/ sk = NoKey
    \/ Base64Invalid(encryptedData)

\* EncryptionService.decryptData throws (no session, atob or decrypt fails)
DecryptDataFails(sk, encryptedData) ==
    \/ sk = NoKey
    \/ Base64Invalid(encryptedData)
    \/ SubtleDecryptFails(sk.key, sk.iv, Base64Decode(encryptedData))

\* (variant) decryptData creates a session when there is none, as
\* encryptData does
DecryptSession_lazyInit(sk, n) == IF sk = NoKey THEN NewSessionKey(n + 1) ELSE sk

\* the session key decryptData leaves behind: with no session it throws and
\* creates none (n: the number of keys generated so far)
DecryptSession(sk, n) == sk

\* EncryptionService.decryptData, when it resolves
DecryptData(sk, encryptedData) ==
    SubtleDecrypt(sk.key, sk.iv, Base64Decode(encryptedData))

\* EncryptionService.encryptData, the part after the session check
EncryptData(sk, bytes) == Base64Encode(SubtleEncrypt(sk.key, sk.iv, bytes))

\* dataBuffer = typeof data === 'string' ? encoder.encode(data) : data
DataBuffer(data) == IF data.isString THEN Utf8Encode(data.val) ELSE data.val

\* the SecureCache record cacheDocument builds and stringifies; sk is the
\* session key at the time the record is built.  Dates survive
\* JSON.stringify / new Date(...) unchanged (millisecond precision).
CacheRecord(documentId, encryptedData, sk, t) ==
    [kind |-> "json", documentId |-> documentId,
     encryptedData |-> encryptedData,
     iv |-> Base64Encode(sk.iv),
     timestamp |-> t,
     expiresAt |-> t + SESSION_DURATION]

\* (variant) cacheDocument takes the iv from the key it encrypted with
RecordKey_captured(sk, callKey) == callKey

\* the key whose iv cacheDocument writes into the record: this.sessionKey as
\* it is after the await of encryptData (callKey: the key encryptData read
\* before the await)
RecordKey(sk, callKey) == sk

\* (variant) the catch of cacheDocument re-throws what it caught
CacheDocumentError_rethrow(inner) == inner

\* the catch of cacheDocument: whatever was thrown is wrapped
CacheDocumentError(inner) == "CACHE_FAILED"

\* (variant) the catch of initializeSession re-throws what it caught
InitializeSessionError_rethrow(inner) == inner

\* the catch of initializeSession
InitializeSessionError(inner) == "ENCRYPTION_INIT_FAILED"

\* the catch of EncryptionService.panicClear
PanicClearError(inner) == "PANIC_CLEAR_FAILED"

\* (variant) the catch of useAppStore.panicClear only logs
StorePanicClearCatch_swallow(code) == [status |-> "resolved", code |-> ""]

\* the catch of useAppStore.panicClear: `throw error`
StorePanicClearCatch(code) == [status |-> "rejected", code |-> code]

\* (variant) panicClear throws when it finds nothing to clear
PanicClearThrows_onEmpty(keys, storageFails) == storageFails \/ keys = {}

\* the try of EncryptionService.panicClear throws: only when a call into the
\* storage layer does; looping over no keys throws nothing
PanicClearThrows(keys, storageFails) == storageFails

\* (variant) removing an entry that does not exist is an error
RemoveThrows_whenAbsent(cache, removeItemFails) ==
    removeItemFails \/ cache.kind = "none"

\* removeCachedDocument throws: only when localStorage.removeItem does,
\* which it does not for an absent key
RemoveThrows(cache, removeItemFails) == removeItemFails

\* (variant) initializeSession keeps a key that is already installed
InstalledKey_keepExisting(sk, n) == IF sk # NoKey THEN sk ELSE NewSessionKey(n + 1)

\* the key initializeSession assigns to this.sessionKey: always the newly
\* generated one, whatever sk was there (n: keys generated so far)
InstalledKey(sk, n) == NewSessionKey(n + 1)

\* (variant) removeItem is skipped
RemoveItem_skipped(ls, k) == ls

\* removeCachedDocument: localStorage.removeItem(CACHE_PREFIX + documentId)
RemoveItem(ls, k) == [ls EXCEPT ![k] = NoEntry]

\* (variant) an existing entry is kept
SetItem_keepExisting(ls, k, v) ==
    IF ls[k].kind # "none" THEN ls ELSE [ls EXCEPT ![k] = v]

\* (variant) a write over an existing entry keeps that entry's timestamps
SetItem_merged(ls, k, v) ==
    [ls EXCEPT ![k] = IF ls[k].kind = "json"
                      THEN [v EXCEPT !.timestamp = ls[k].timestamp,
                                     !.expiresAt = ls[k].expiresAt]
                      ELSE v]

\* cacheDocument: localStorage.setItem(CACHE_PREFIX + documentId, ...)
SetItem(ls, k, v) == [ls EXCEPT ![k] = v]

\* what the synchronous part of getCachedDocument does with the stored value:
\* "throw" (getItem or JSON.parse throws), "miss", "expired" or "decrypt"
ReadBranch(cache, getItemFails, t) ==
    IF getItemFails THEN "throw"
    ELSE IF cache.kind = "none" THEN "miss"
    ELSE IF cache.kind = "garbage" THEN "throw"
    ELSE IF Expired(cache, t) THEN "expired"
    ELSE "decrypt"

\* history: the entry for documentId is gone or no longer the service's
Forget(documentId) == [encryptedUnder EXCEPT ![documentId] = 0]

----------------------------------------------------------------------------
(* Initial state: a freshly constructed service, empty storage *)

Init ==
    /\ sessionKey = NoKey
    /\ localStorage = [k \in StorageKeys |-> NoEntry]
    /\ now = 0
    /\ calls = EmptyBag
    /\ nextKey = 0
    /\ ops = 0
    /\ store = InitialStore
    /\ encryptedUnder = [id \in AllIds |-> 0]
    /\ last = NoOutcome
    /\ currentUser = "null"
    /\ tokens = NoTokens
    /\ issued = 0
    /\ events = <<>>
    /\ hash = NoHash
    /\ docs = NoDocuments
    /\ versionControl = IdleComponent
    /\ inFlightAtClear = EmptyBag

----------------------------------------------------------------------------
(* initializeSession *)

\* initializeSession() is called: runs up to `await generateKey(...)`
InitializeSessionCall ==
    /\ CanCall
    /\ ops' = ops + 1
    /\ calls' = Start([IdleCall EXCEPT !.op = "initializeSession",
                                       !.pc = "generateKey"])
    /\ last' = NoOutcome
    /\ UNCHANGED <<sessionKey, localStorage, now, nextKey, store,
                   encryptedUnder>>
    /\ UNCHANGED <<authVars, hash, docVars, inFlightAtClear>>

\* generateKey settles: the rest of initializeSession.  When the call came
\* from encryptData, a rejection passes through encryptData (the await is
\* outside its try) into the catch of cacheDocument.
GenerateKeyDone(c, fails) ==
    /\ c \in InFlight /\ c.pc = "generateKey"
    /\ IF fails
       THEN /\ calls' = Settle(c)
            /\ last' = IF c.op = "initializeSession"
                       THEN Outcome("initializeSession", "", "rejected",
                                    InitializeSessionError("generateKey"),
                                    <<>>, NoEntry, {})
                       ELSE Outcome("cacheDocument", c.id, "rejected",
                                    CacheDocumentError(
                                        InitializeSessionError("generateKey")),
                                    <<>>, localStorage[CacheKey(c.id)], {})
            /\ UNCHANGED <<sessionKey, nextKey>>
       ELSE /\ sessionKey' = InstalledKey(sessionKey, nextKey)
            /\ nextKey' = nextKey + 1
            /\ IF c.op = "initializeSession"
               THEN /\ calls' = Settle(c)
                    /\ last' = Outcome("initializeSession", "", "resolved",
                                       "", <<>>, NoEntry, {})
               ELSE /\ calls' = Step(c, [c EXCEPT !.pc = "initialized"])
                    /\ last' = NoOutcome
    /\ UNCHANGED <<localStorage, now, ops, store, encryptedUnder>>
    /\ UNCHANGED <<authVars, hash, docVars, inFlightAtClear>>

----------------------------------------------------------------------------
(* cacheDocument *)

\* cacheDocument(documentId, data) is called: runs into encryptData, up to
\* `await this.initializeSession()` when there is no key, else up to
\* `await crypto.subtle.encrypt(...)`
CacheDocumentCall(documentId, data) ==
    /\ CanCall
    /\ ops' = ops + 1
    /\ calls' = Start([IdleCall EXCEPT
                          !.op = "cacheDocument",
                          !.pc = IF sessionKey = NoKey THEN "generateKey"
                                                       ELSE "encrypt",
                          !.id = documentId,
                          !.bytes = DataBuffer(data),
                          !.key = sessionKey])
    /\ last' = NoOutcome
    /\ UNCHANGED <<sessionKey, localStorage, now, nextKey, store,
                   encryptedUnder>>
    /\ UNCHANGED <<authVars, hash, docVars, inFlightAtClear>>

\* encryptData resumes after `await this.initializeSession()`: reads
\* this.sessionKey!.iv and this.sessionKey!.key and starts the encryption
EncryptStart(c) ==
    /\ c \in InFlight /\ c.pc = "initialized"
    /\ IF sessionKey = NoKey
       THEN /\ calls' = Settle(c)
            /\ last' = Outcome("cacheDocument", c.id, "rejected",
                               CacheDocumentError("ENCRYPTION_FAILED"),
                               <<>>, localStorage[CacheKey(c.id)], {})
       ELSE /\ calls' = Step(c, [c EXCEPT !.pc = "encrypt",
                                          !.key = sessionKey])
            /\ last' = NoOutcome
    /\ UNCHANGED <<sessionKey, localStorage, now, nextKey, ops, store,
                   encryptedUnder>>
    /\ UNCHANGED <<authVars, hash, docVars, inFlightAtClear>>

\* crypto.subtle.encrypt settles: the rest of encryptData, then the rest of
\* cacheDocument (reads this.sessionKey!.iv again, builds the record,
\* localStorage.setItem)
EncryptDone(c, encryptFails, setItemFails) ==
    /\ c \in InFlight /\ c.pc = "encrypt"
    /\ calls' = Settle(c)
    /\ IF \/ encryptFails
          \/ RecordKey(sessionKey, c.key) = NoKey
          \/ setItemFails
       THEN /\ last' = Outcome("cacheDocument", c.id, "rejected",
                               CacheDocumentError(
                                   IF encryptFails THEN "ENCRYPTION_FAILED"
                                   ELSE IF RecordKey(sessionKey, c.key) = NoKey
                                   THEN "TypeError"
                                   ELSE "QuotaExceededError"),
                               <<>>, localStorage[CacheKey(c.id)], {})
            /\ UNCHANGED <<localStorage, encryptedUnder>>
       ELSE /\ localStorage' =
                SetItem(localStorage, CacheKey(c.id),
                        CacheRecord(c.id, EncryptData(c.key, c.bytes),
                                    RecordKey(sessionKey, c.key), now))
            /\ encryptedUnder' = [encryptedUnder EXCEPT ![c.id] = c.key.key]
            /\ last' = Outcome("cacheDocument", c.id, "resolved", "",
                               c.bytes, localStorage[CacheKey(c.id)], {})
    /\ UNCHANGED <<sessionKey, now, nextKey, ops, store>>
    /\ UNCHANGED <<authVars, hash, docVars, inFlightAtClear>>

----------------------------------------------------------------------------
(* getCachedDocument and removeCachedDocument *)

\* getCachedDocument(documentId) is called: runs up to
\* `await this.decryptData(...)`, or to its end when it does not get there.
\* decryptData reads this.sessionKey and starts the decryption before the
\* await.  removeCachedDocument in the expired branch is inside the try, so a
\* throw there lands in the catch, which calls removeCachedDocument again.
GetCachedDocumentCall(documentId, getItemFails, removeItemFails) ==
    LET cache == localStorage[CacheKey(documentId)]
        branch == ReadBranch(cache, getItemFails, now)
    IN
    /\ CanCall
    /\ ops' = ops + 1
    /\ IF branch = "miss"
       THEN /\ last' = Outcome("getCachedDocument", documentId, "resolved",
                               "null", <<>>, cache, {})
            /\ UNCHANGED <<localStorage, calls, encryptedUnder>>
       ELSE IF branch \in {"throw", "expired"}
       THEN /\ UNCHANGED calls
            /\ IF removeItemFails
               THEN /\ last' = Outcome("getCachedDocument", documentId,
                                       "rejected", "SecurityError", <<>>,
                                       cache, {})
                    /\ UNCHANGED <<localStorage, encryptedUnder>>
               ELSE /\ last' = Outcome("getCachedDocument", documentId,
                                       "resolved", "null", <<>>, cache, {})
                    /\ localStorage' =
                           RemoveItem(localStorage, CacheKey(documentId))
                    /\ encryptedUnder' = Forget(documentId)
       ELSE /\ calls' = Start(
                [IdleCall EXCEPT
                    !.op = "getCachedDocument",
                    !.pc = "decrypt",
                    !.id = documentId,
                    !.key = sessionKey,
                    !.hit = ~DecryptDataFails(sessionKey, cache.encryptedData),
                    !.out = IF DecryptDataFails(sessionKey, cache.encryptedData)
                            THEN <<>>
                            ELSE DecryptData(sessionKey, cache.encryptedData)])
            /\ last' = NoOutcome
            /\ UNCHANGED <<localStorage, encryptedUnder>>
    /\ sessionKey' = IF branch = "decrypt"
                     THEN DecryptSession(sessionKey, nextKey)
                     ELSE sessionKey
    /\ UNCHANGED <<now, nextKey, store>>
    /\ UNCHANGED <<authVars, hash, docVars, inFlightAtClear>>

\* decryptData settles: getCachedDocument returns the plaintext, or its catch
\* removes the entry and returns null
GetCachedDocumentDone(c, removeItemFails) ==
    /\ c \in InFlight /\ c.pc = "decrypt"
    /\ calls' = Settle(c)
    /\ IF c.hit
       THEN /\ last' = Outcome("getCachedDocument", c.id, "resolved", "hit",
                               c.out, localStorage[CacheKey(c.id)], {})
            /\ UNCHANGED <<localStorage, encryptedUnder>>
       ELSE IF removeItemFails
       THEN /\ last' = Outcome("getCachedDocument", c.id, "rejected",
                               "SecurityError", <<>>,
                               localStorage[CacheKey(c.id)], {})
            /\ UNCHANGED <<localStorage, encryptedUnder>>
       ELSE /\ last' = Outcome("getCachedDocument", c.id, "resolved", "null",
                               <<>>, localStorage[CacheKey(c.id)], {})
            /\ localStorage' = RemoveItem(localStorage, CacheKey(c.id))
            /\ encryptedUnder' = Forget(c.id)
    /\ UNCHANGED <<sessionKey, now, nextKey, ops, store>>
    /\ UNCHANGED <<authVars, hash, docVars, inFlightAtClear>>

\* removeCachedDocument(documentId), called directly
RemoveCachedDocument(documentId, removeItemFails) ==
    /\ ops < MaxOps
    /\ ops' = ops + 1
    /\ IF RemoveThrows(localStorage[CacheKey(documentId)], removeItemFails)
       THEN /\ last' = Outcome("removeCachedDocument", documentId, "rejected",
                               "SecurityError", <<>>,
                               localStorage[CacheKey(documentId)], {})
            /\ UNCHANGED <<localStorage, encryptedUnder>>
       ELSE /\ last' = Outcome("removeCachedDocument", documentId, "resolved",
                               "", <<>>, localStorage[CacheKey(documentId)],
                               {})
            /\ localStorage' = RemoveItem(localStorage, CacheKey(documentId))
            /\ encryptedUnder' = Forget(documentId)
    /\ UNCHANGED <<sessionKey, now, calls, nextKey, store>>
    /\ UNCHANGED <<authVars, hash, docVars, inFlightAtClear>>

----------------------------------------------------------------------------
(* panicClear *)

\* (variant) the loop compares the key with the prefix instead of startsWith
PanicKeys_exactMatch == {k \in StoredKeys : StartsWithPrefix(k) /\ k[2] = ""}

\* the keys the loop of panicClear removes
PanicKeys == {k \in StoredKeys : StartsWithPrefix(k)}

\* the body of EncryptionService.panicClear: no await, so it runs in one
\* piece.  When the storage layer throws (Object.keys, removeItem or
\* sessionStorage.clear), the keys removed before the throw are `removed`
\* and the session key is not reset.
PanicClearBody(removed, storageFails) ==
    /\ removed \subseteq PanicKeys
    /\ ~storageFails => removed = PanicKeys
    /\ localStorage' = [k \in StorageKeys |->
                           IF k \in removed THEN NoEntry ELSE localStorage[k]]
    /\ encryptedUnder' = [id \in AllIds |->
                           IF CacheKey(id) \in removed THEN 0
                           ELSE encryptedUnder[id]]
    /\ sessionKey' = IF PanicClearThrows(PanicKeys, storageFails)
                     THEN sessionKey ELSE NoKey
    /\ last' = IF PanicClearThrows(PanicKeys, storageFails)
               THEN Outcome("panicClear", "", "rejected",
                            PanicClearError("SecurityError"), <<>>, NoEntry,
                            {StripPrefix(k) : k \in removed})
               ELSE Outcome("panicClear", "", "resolved", "", <<>>, NoEntry,
                            {StripPrefix(k) : k \in removed})

\* (variant) panicClear drops the calls in flight
CallsAfterClear_drained(cs) == EmptyBag

\* the calls in flight after panicClear: it neither awaits nor cancels any
CallsAfterClear(cs) == cs

\* history: with track set, a panicClear that succeeds records the calls in
\* flight
ClearSeen(track, storageFails) ==
    inFlightAtClear' =
        IF track /\ ~PanicClearThrows(PanicKeys, storageFails)
        THEN calls ELSE inFlightAtClear

\* encryptionService.panicClear(), called directly
PanicClear(removed, storageFails) ==
    /\ ops < MaxOps
    /\ ops' = ops + 1
    /\ PanicClearBody(removed, storageFails)
    /\ calls' = CallsAfterClear(calls)
    /\ UNCHANGED <<now, nextKey, store>>
    /\ UNCHANGED <<authVars, hash, docVars>>

\* useAppStore.panicClear() is called: runs encryptionService.panicClear()
\* and suspends at the await
StorePanicClearCall(removed, storageFails) ==
    /\ CanCall
    /\ ops' = ops + 1
    /\ PanicClearBody(removed, storageFails)
    /\ calls' = CallsAfterClear(calls) (+) SetToBag({[IdleCall EXCEPT
                          !.op = "store.panicClear",
                          !.pc = "await",
                          !.hit = ~PanicClearThrows(PanicKeys, storageFails),
                          !.code = IF PanicClearThrows(PanicKeys, storageFails)
                                   THEN PanicClearError("SecurityError")
                                   ELSE ""]})
    /\ UNCHANGED <<now, nextKey, store>>
    /\ UNCHANGED <<authVars, hash, docVars>>

\* useAppStore.panicClear resumes: its catch re-throws, or it resets the
\* store, removes the persisted store state and clears sessionStorage.
\* fault names the storage call that throws: "none", "removeItem" or
\* "sessionStorage".
StorePanicClearDone(c, fault) ==
    /\ c \in InFlight /\ c.pc = "await"
    /\ calls' = Settle(c)
    /\ IF ~c.hit
       THEN /\ last' = Outcome("store.panicClear", "",
                               StorePanicClearCatch(c.code).status,
                               StorePanicClearCatch(c.code).code,
                               <<>>, NoEntry, {})
            /\ UNCHANGED <<store, docs, localStorage>>
       ELSE /\ store' = InitialStore
            /\ docs' = NoDocuments
            /\ localStorage' = IF fault = "removeItem" THEN localStorage
                               ELSE RemoveItem(localStorage, AppKey)
            /\ last' = IF fault = "none"
                       THEN Outcome("store.panicClear", "", "resolved", "",
                                    <<>>, NoEntry, {})
                       ELSE Outcome("store.panicClear", "",
                                    StorePanicClearCatch("SecurityError").status,
                                    StorePanicClearCatch("SecurityError").code,
                                    <<>>, NoEntry, {})
    /\ UNCHANGED <<sessionKey, now, nextKey, ops, encryptedUnder>>
    /\ UNCHANGED <<authVars, hash, versionControl,
                   inFlightAtClear>>

----------------------------------------------------------------------------
(* generateHash and verifyHash *)

\* the ArrayBuffers that are hashed
HashBytes == {0, 1, 255}
HashInputs == UNION {[1..n -> HashBytes] : n \in 0..MaxHashLen}

\* EncryptionService.generateHash: the base64 text of the digest
generateHash(data) == Base64Encode(Sha256(data))

\* (variant) only the length of the two base64 texts is compared
verifyHash_lengthOnly(data, expectedHash) ==
    Len(generateHash(data)) = Len(expectedHash)

\* EncryptionService.verifyHash: actualHash === expectedHash
verifyHash(data, expectedHash) == generateHash(data) = expectedHash

\* generateHash(data) is called and resolves
GenerateHashCall(data) ==
    /\ hash' = [NoHash EXCEPT !.data = data, !.digest = generateHash(data)]
    /\ UNCHANGED <<sessionKey, localStorage, now, calls, nextKey, ops, store,
                   encryptedUnder, last, authVars, docVars,
                   inFlightAtClear>>

\* verifyHash(data, expectedHash) is called with the digest generateHash
\* returned last, and resolves
VerifyHashCall(data) ==
    /\ hash.digest # <<>>
    /\ hash' = [hash EXCEPT !.checked = data,
                            !.expected = hash.digest,
                            !.verified = verifyHash(data, hash.digest)]
    /\ UNCHANGED <<sessionKey, localStorage, now, calls, nextKey, ops, store,
                   encryptedUnder, last, authVars, docVars,
                   inFlightAtClear>>

----------------------------------------------------------------------------
(* AuthService, AuditService and the permission table *)

\* AuditService.MAX_EVENTS
MAX_EVENTS == 1000

\* AuthService.MOCK_USERS (the fields the service reads)
MOCK_USERS ==
    << [id |-> "1", email |-> "viewer@foi.gov.au", role |-> "viewer"],
       [id |-> "2", email |-> "redactor@foi.gov.au", role |-> "redactor"],
       [id |-> "3", email |-> "approver@foi.gov.au", role |-> "approver"] >>

\* the emails login is called with: the known ones and one that is not
Emails == {MOCK_USERS[i].email : i \in 1..Len(MOCK_USERS)}
              \cup {"invalid@email.com"}

UserIds == {MOCK_USERS[i].id : i \in 1..Len(MOCK_USERS)}

\* this.MOCK_USERS.find(u => u.email === email): the id of the first match,
\* "null" for undefined
FindUser(email) ==
    LET matches == {i \in 1..Len(MOCK_USERS) : MOCK_USERS[i].email = email}
    IN IF matches = {} THEN "null"
       ELSE MOCK_USERS[CHOOSE i \in matches : \A j \in matches : i <= j].id

\* the role of the user with the given id
RoleOf(id) ==
    MOCK_USERS[CHOOSE i \in 1..Len(MOCK_USERS) : MOCK_USERS[i].id = id].role

\* ROLE_PERMISSIONS of '@/types'
ROLE_PERMISSIONS ==
    [ viewer |->
        << [resource |-> "document",  action |-> "view",    granted |-> TRUE],
           [resource |-> "document",  action |-> "upload",  granted |-> FALSE],
           [resource |-> "redaction", action |-> "create",  granted |-> FALSE],
           [resource |-> "redaction", action |-> "edit",    granted |-> FALSE],
           [resource |-> "redaction", action |-> "approve", granted |-> FALSE],
           [resource |-> "version",   action |-> "approve", granted |-> FALSE] >>,
      redactor |->
        << [resource |-> "document",  action |-> "view",    granted |-> TRUE],
           [resource |-> "document",  action |-> "upload",  granted |-> TRUE],
           [resource |-> "redaction", action |-> "create",  granted |-> TRUE],
           [resource |-> "redaction", action |-> "edit",    granted |-> TRUE],
           [resource |-> "redaction", action |-> "approve", granted |-> FALSE],
           [resource |-> "version",   action |-> "approve", granted |-> FALSE] >>,
      approver |->
        << [resource |-> "document",  action |-> "view",    granted |-> TRUE],
           [resource |-> "document",  action |-> "upload",  granted |-> TRUE],
           [resource |-> "redaction", action |-> "create",  granted |-> TRUE],
           [resource |-> "redaction", action |-> "edit",    granted |-> TRUE],
           [resource |-> "redaction", action |-> "approve", granted |-> TRUE],
           [resource |-> "version",   action |-> "approve", granted |-> TRUE] >> ]

\* the resources and actions hasPermission is asked about, listed and not
Resources == {"document", "redaction", "version", "audit"}
Actions == {"view", "upload", "create", "edit", "approve"}

\* (variant) the granted flag of the entry is not looked at
PermissionGranted_ignoresFlag(permissions, resource, action) ==
    \E i \in 1..Len(permissions) :
        /\ permissions[i].resource = resource
        /\ permissions[i].action = action

\* permissions.some(p => p.resource === resource && p.action === action
\*                       && p.granted)
PermissionGranted(permissions, resource, action) ==
    \E i \in 1..Len(permissions) :
        /\ permissions[i].resource = resource
        /\ permissions[i].action = action
        /\ permissions[i].granted

\* hasPermission of utils/permissions
utilsHasPermission(userRole, resource, action) ==
    PermissionGranted(ROLE_PERMISSIONS[userRole], resource, action)

\* AuthService.hasPermission
hasPermission(resource, action) ==
    IF currentUser = "null" THEN FALSE
    ELSE PermissionGranted(ROLE_PERMISSIONS[RoleOf(currentUser)],
                           resource, action)

\* AuthService.getCurrentUser
getCurrentUser == currentUser

\* AuthService.getAccessToken: tokens?.accessToken || null (0 models null)
getAccessToken == IF tokens = NoTokens THEN 0 ELSE tokens.serial

\* AuthService.isAuthenticated
isAuthenticated == currentUser # "null" /\ tokens # NoTokens

\* generateMockJWT / generateMockRefreshToken: a token set never issued before
NewTokens(user, n) == [sub |-> user, serial |-> n + 1]

\* AuditService.log, the part before its await: events.unshift(event), then
\* the list is cut to MAX_EVENTS
AuditLog(evs, userId, action) ==
    LET added == <<[userId |-> userId, action |-> action]>> \o evs
    IN IF Len(added) > MAX_EVENTS THEN SubSeq(added, 1, MAX_EVENTS) ELSE added

\* (variant) the catch of login re-throws what it caught
LoginError_rethrow(inner) == inner

\* the catch of login: whatever was thrown is wrapped as 'Authentication
\* failed'
LoginError(inner) == "AUTH_FAILED"

\* (variant) logout drops the tokens but keeps the user
LogoutState_keepsUser(user, toks) == [currentUser |-> user, tokens |-> NoTokens]

\* (variant) logout forgets the user but keeps the tokens
LogoutState_keepsTokens(user, toks) == [currentUser |-> "null", tokens |-> toks]

\* what logout assigns: this.currentUser = null; this.tokens = null
LogoutState(user, toks) == [currentUser |-> "null", tokens |-> NoTokens]

\* login(email, password) is called: runs up to `await simulateOIDCFlow`
LoginCall(email) ==
    /\ CanCall
    /\ ops' = ops + 1
    /\ calls' = Start([IdleCall EXCEPT !.op = "login", !.pc = "oidc",
                                       !.id = email])
    /\ last' = NoOutcome
    /\ UNCHANGED <<sessionKey, localStorage, now, nextKey, store,
                   encryptedUnder, authVars, hash, docVars,
                   inFlightAtClear>>

\* the OIDC flow is over: the user is looked up; an unknown email throws
\* into the catch, a known one goes on to `await simulateMFA`
LoginOidcDone(c) ==
    /\ c \in InFlight /\ c.op = "login" /\ c.pc = "oidc"
    /\ IF FindUser(c.id) = "null"
       THEN /\ calls' = Settle(c)
            /\ last' = Outcome("login", c.id, "rejected",
                               LoginError("AUTH_INVALID_CREDENTIALS"),
                               <<>>, NoEntry, {})
       ELSE /\ calls' = Step(c, [c EXCEPT !.pc = "mfa"])
            /\ last' = NoOutcome
    /\ UNCHANGED <<sessionKey, localStorage, now, nextKey, ops, store,
                   encryptedUnder, authVars, hash, docVars,
                   inFlightAtClear>>

\* MFA is over: tokens and currentUser are assigned and auditService.log is
\* called, which records the event and suspends
LoginMfaDone(c) ==
    /\ c \in InFlight /\ c.op = "login" /\ c.pc = "mfa"
    /\ tokens' = NewTokens(FindUser(c.id), issued)
    /\ issued' = issued + 1
    /\ currentUser' = FindUser(c.id)
    /\ events' = AuditLog(events, FindUser(c.id), "auth.login")
    /\ calls' = Step(c, [c EXCEPT !.pc = "audit"])
    /\ last' = NoOutcome
    /\ UNCHANGED <<sessionKey, localStorage, now, nextKey, ops, store,
                   encryptedUnder, hash, docVars,
                   inFlightAtClear>>

\* auditService.log settles (a failure of the audit endpoint is caught
\* inside it): login returns the user
LoginAuditDone(c) ==
    /\ c \in InFlight /\ c.op = "login" /\ c.pc = "audit"
    /\ calls' = Settle(c)
    /\ last' = Outcome("login", c.id, "resolved", FindUser(c.id), <<>>,
                       NoEntry, {})
    /\ UNCHANGED <<sessionKey, localStorage, now, nextKey, ops, store,
                   encryptedUnder, authVars, hash, docVars,
                   inFlightAtClear>>

\* logout() is called: with a user it records the audit event and suspends;
\* with none it has no await and runs to its end
LogoutCall(storageFails) ==
    /\ CanCall
    /\ ops' = ops + 1
    /\ IF currentUser # "null"
       THEN /\ events' = AuditLog(events, currentUser, "auth.logout")
            /\ calls' = Start([IdleCall EXCEPT !.op = "logout",
                                               !.pc = "audit"])
            /\ last' = NoOutcome
            /\ UNCHANGED <<currentUser, tokens>>
       ELSE /\ currentUser' = LogoutState(currentUser, tokens).currentUser
            /\ tokens' = LogoutState(currentUser, tokens).tokens
            /\ last' = Outcome("logout", "",
                               IF storageFails THEN "rejected" ELSE "resolved",
                               IF storageFails THEN "SecurityError" ELSE "",
                               <<>>, NoEntry, {})
            /\ UNCHANGED <<events, calls>>
    /\ UNCHANGED <<sessionKey, localStorage, now, nextKey, store,
                   encryptedUnder, issued, hash, docVars,
                   inFlightAtClear>>

\* auditService.log settles: logout clears currentUser and tokens, then
\* removes 'foi_session' (never written, not a cache key) and clears
\* sessionStorage
LogoutAuditDone(c, storageFails) ==
    /\ c \in InFlight /\ c.op = "logout" /\ c.pc = "audit"
    /\ calls' = Settle(c)
    /\ currentUser' = LogoutState(currentUser, tokens).currentUser
    /\ tokens' = LogoutState(currentUser, tokens).tokens
    /\ last' = Outcome("logout", "",
                       IF storageFails THEN "rejected" ELSE "resolved",
                       IF storageFails THEN "SecurityError" ELSE "",
                       <<>>, NoEntry, {})
    /\ UNCHANGED <<sessionKey, localStorage, now, nextKey, ops, store,
                   encryptedUnder, issued, events, hash, docVars,
                   inFlightAtClear>>

\* refreshToken(): no await; throws without tokens or user, else replaces
\* the tokens
RefreshToken ==
    /\ ops < MaxOps
    /\ ops' = ops + 1
    /\ IF tokens = NoTokens \/ currentUser = "null"
       THEN /\ last' = Outcome("refreshToken", "", "rejected",
                               "AUTH_NO_REFRESH_TOKEN", <<>>, NoEntry, {})
            /\ UNCHANGED <<tokens, issued>>
       ELSE /\ tokens' = NewTokens(currentUser, issued)
            /\ issued' = issued + 1
            /\ last' = Outcome("refreshToken", "", "resolved", "", <<>>,
                               NoEntry, {})
    /\ UNCHANGED <<sessionKey, localStorage, now, calls, nextKey, store,
                   encryptedUnder, currentUser, events, hash, docVars,
                   inFlightAtClear>>

----------------------------------------------------------------------------
(* useAppStore: the actions that fill what reset empties *)

\* setUser(user), as LoginForm and the App mount call it
SetUser(user) ==
    /\ ops < MaxOps
    /\ ops' = ops + 1
    /\ store' = [store EXCEPT !.user = user,
                              !.isAuthenticated = (user # "null")]
    /\ last' = NoOutcome
    /\ UNCHANGED <<sessionKey, localStorage, now, calls, nextKey,
                   encryptedUnder, authVars, hash, docVars,
                   inFlightAtClear>>

\* the contents of the files that are uploaded
FileContents == {<<0>>, <<1, 255>>}

\* one version of a document (the fields the version control reads; no
\* code path adds a redaction, so redactions is always empty and left out)
DocumentVersion(type, content, h, encrypted) ==
    [type |-> type, content |-> content, hash |-> h, encrypted |-> encrypted]

\* the Document object the upload builds for a file: its only version is
\* the original, which is the current one
NewDocument(content) ==
    [versions |-> <<DocumentVersion("original", content,
                                    generateHash(content), FALSE)>>,
     currentVersion |-> "original",
     hash |-> generateHash(content)]

\* addDocument(document), as the upload calls it; document.id is a uuid, so
\* it names no document the store holds
AddDocument(documentId, content) ==
    /\ ops < MaxOps
    /\ ops' = ops + 1
    /\ documentId \notin store.documents
    /\ store' = [store EXCEPT !.documents = @ \cup {documentId}]
    /\ docs' = [docs EXCEPT ![documentId] = NewDocument(content)]
    /\ last' = NoOutcome
    /\ UNCHANGED <<sessionKey, localStorage, now, calls, nextKey,
                   encryptedUnder, authVars, hash, versionControl,
                   inFlightAtClear>>

\* { ...doc, ...updates }
Merge(doc, updates) ==
    [f \in DOMAIN doc |-> IF f \in DOMAIN updates THEN updates[f] ELSE doc[f]]

\* updateDocument(documentId, updates): the documents of the store after it
\* (currentDocument is the same object of the list and changes with it)
UpdateDocument(documentId, updates) ==
    [id \in DocIds |->
        IF id = documentId /\ id \in store.documents
        THEN Merge(docs[id], updates) ELSE docs[id]]

\* setCurrentDocument(document), as the document list calls it for one of
\* the documents it shows
SetCurrentDocument(documentId) ==
    /\ ops < MaxOps
    /\ ops' = ops + 1
    /\ documentId \in store.documents
    /\ store' = [store EXCEPT !.currentDocument = documentId]
    /\ last' = NoOutcome
    /\ UNCHANGED <<sessionKey, localStorage, now, calls, nextKey,
                   encryptedUnder, authVars, hash, docVars,
                   inFlightAtClear>>

----------------------------------------------------------------------------
(* VersionControl: the component that manages the versions of the current *)
(* document.  Its buttons are disabled while isProcessing is set, so one   *)
(* handler runs at a time.  A button is shown or enabled under conditions   *)
(* on the versions and the role; those of them a handler checks again      *)
(* itself are left to the handler here.                                    *)

VersionTypes == {"original", "working", "final"}

\* versions.find(v => v.type === type): the index of the first match, 0 for
\* undefined
FindVersion(versions, type) ==
    LET matches == {i \in 1..Len(versions) : versions[i].type = type}
    IN IF matches = {} THEN 0
       ELSE CHOOSE i \in matches : \A j \in matches : i <= j

\* versions.some(v => v.type === type)
HasVersion(versions, type) == FindVersion(versions, type) # 0

\* (variant) whoever may edit redactions may approve versions
canApproveVersions_asEditors(user) ==
    user # "null" /\ utilsHasPermission(RoleOf(user), "redaction", "edit")

\* usePermissions().canApproveVersions for the user of the store: false
\* without a user, else canApproveVersions(user.role)
canApproveVersions(user) ==
    user # "null" /\ utilsHasPermission(RoleOf(user), "version", "approve")

\* (variant) the new version takes the place of the list
WithVersion_replacing(versions, v) == <<v>>

\* [...currentDocument.versions, version]
WithVersion(versions, v) == Append(versions, v)

\* handleSwitchVersion: the version it looks for is found
SwitchFinds(versions, versionType) == HasVersion(versions, versionType)

\* a handler of the component starts processing the current document
Processing(handler, pc) ==
    [isProcessing |-> TRUE, handler |-> handler, pc |-> pc,
     document |-> store.currentDocument,
     versions |-> docs[store.currentDocument].versions,
     user |-> store.user]

\* the component shows its buttons and they are enabled
ButtonsEnabled ==
    /\ store.currentDocument # "null"
    /\ ~versionControl.isProcessing

\* "Create Working Version" is clicked (the button is shown while there is no
\* working version): handleCreateWorkingVersion runs up to
\* `await auditService.log`
HandleCreateWorkingVersion ==
    LET id == store.currentDocument
        versions == docs[id].versions
        o == FindVersion(versions, "original")
    IN
    /\ ButtonsEnabled
    /\ ~HasVersion(versions, "working")
    /\ IF o = 0
       THEN /\ last' = Outcome("handleCreateWorkingVersion", id, "failed",
                               "Original version not found", <<>>, NoEntry,
                               {})
            /\ UNCHANGED <<docs, events, versionControl>>
       ELSE /\ docs' = UpdateDocument(id,
                [versions |-> WithVersion(versions,
                                 DocumentVersion("working",
                                                 versions[o].content,
                                                 versions[o].hash,
                                                 versions[o].encrypted)),
                 currentVersion |-> "working"])
            /\ events' = AuditLog(events, "current-user", "version.create")
            /\ versionControl' =
                   Processing("handleCreateWorkingVersion", "audit")
            /\ last' = NoOutcome
    /\ UNCHANGED <<sessionKey, localStorage, now, calls, nextKey, ops, store,
                   encryptedUnder, currentUser, tokens, issued, hash,
                   inFlightAtClear>>

\* auditService.log settles: handleCreateWorkingVersion ends
CreateWorkingAuditDone ==
    /\ versionControl.handler = "handleCreateWorkingVersion"
    /\ versionControl.pc = "audit"
    /\ versionControl' = IdleComponent
    /\ last' = Outcome("handleCreateWorkingVersion", versionControl.document,
                       "done", "", <<>>, NoEntry, {})
    /\ UNCHANGED <<sessionKey, localStorage, now, calls, nextKey, ops, store,
                   encryptedUnder, authVars, hash, docs,
                   inFlightAtClear>>

\* "Finalize Document" is clicked (the button is shown while there is no
\* final version): handleApproveVersion returns at once without the
\* permission or without a working version, else runs up to
\* `await encryptionService.generateHash`
HandleApproveVersion ==
    LET id == store.currentDocument
        versions == docs[id].versions
    IN
    /\ ButtonsEnabled
    /\ ~HasVersion(versions, "final")
    /\ IF ~canApproveVersions(store.user)
       THEN /\ last' = Outcome("handleApproveVersion", id, "returned",
                               "not permitted", <<>>, NoEntry, {})
            /\ UNCHANGED versionControl
       ELSE IF FindVersion(versions, "working") = 0
       THEN /\ last' = Outcome("handleApproveVersion", id, "returned",
                               "No working version to approve.", <<>>,
                               NoEntry, {})
            /\ UNCHANGED versionControl
       ELSE /\ versionControl' = Processing("handleApproveVersion", "hash")
            /\ last' = NoOutcome
    /\ UNCHANGED <<sessionKey, localStorage, now, calls, nextKey, ops, store,
                   encryptedUnder, authVars, hash, docs,
                   inFlightAtClear>>

\* generateHash settles: the final version is built from the working version
\* the handler found and appended to the versions it captured
ApproveHashDone ==
    LET versions == versionControl.versions
        w == FindVersion(versions, "working")
        finalHash == generateHash(versions[w].content)
    IN
    /\ versionControl.handler = "handleApproveVersion"
    /\ versionControl.pc = "hash"
    /\ hash' = [NoHash EXCEPT !.data = versions[w].content,
                              !.digest = finalHash]
    /\ docs' = UpdateDocument(versionControl.document,
           [versions |-> WithVersion(versions,
                            DocumentVersion("final", versions[w].content,
                                            finalHash, FALSE)),
            currentVersion |-> "final",
            hash |-> finalHash])
    /\ versionControl' = [versionControl EXCEPT !.pc = "finalize"]
    /\ last' = NoOutcome
    /\ UNCHANGED <<sessionKey, localStorage, now, calls, nextKey, ops, store,
                   encryptedUnder, authVars,
                   inFlightAtClear>>

\* apiService.finalizeDocument settles (a failure is caught and logged):
\* auditService.log is called
ApproveFinalizeDone ==
    /\ versionControl.handler = "handleApproveVersion"
    /\ versionControl.pc = "finalize"
    /\ events' = AuditLog(events, "current-user", "version.approve")
    /\ versionControl' = [versionControl EXCEPT !.pc = "audit"]
    /\ last' = NoOutcome
    /\ UNCHANGED <<sessionKey, localStorage, now, calls, nextKey, ops, store,
                   encryptedUnder, currentUser, tokens, issued, hash, docs,
                   inFlightAtClear>>

\* auditService.log settles: handleApproveVersion ends
ApproveAuditDone ==
    /\ versionControl.handler = "handleApproveVersion"
    /\ versionControl.pc = "audit"
    /\ versionControl' = IdleComponent
    /\ last' = Outcome("handleApproveVersion", versionControl.document,
                       "done", "", <<>>, NoEntry, {})
    /\ UNCHANGED <<sessionKey, localStorage, now, calls, nextKey, ops, store,
                   encryptedUnder, authVars, hash, docs,
                   inFlightAtClear>>

\* a "View" button is clicked: handleSwitchVersion(versionType)
HandleSwitchVersion(versionType) ==
    LET id == store.currentDocument
        versions == docs[id].versions
    IN
    /\ ButtonsEnabled
    /\ IF ~SwitchFinds(versions, versionType)
       THEN /\ last' = Outcome("handleSwitchVersion", id, "returned",
                               versionType, <<>>, NoEntry, {})
            /\ UNCHANGED docs
       ELSE /\ docs' = UpdateDocument(id, [currentVersion |-> versionType])
            /\ last' = Outcome("handleSwitchVersion", id, "done",
                               versionType, <<>>, NoEntry, {})
    /\ UNCHANGED <<sessionKey, localStorage, now, calls, nextKey, ops, store,
                   encryptedUnder, authVars, hash, versionControl,
                   inFlightAtClear>>

----------------------------------------------------------------------------
(* Environment *)

\* time passes: the clock advances by a whole session duration, or by one
\* millisecond more
Tick(dt) ==
    /\ ops < MaxOps
    /\ ops' = ops + 1
    /\ now' = now + dt
    /\ UNCHANGED <<sessionKey, localStorage, calls, nextKey, store,
                   encryptedUnder, last>>
    /\ UNCHANGED <<authVars, hash, docVars, inFlightAtClear>>

\* a stored entry whose encryptedData is not base64
BadBase64(cache) == [cache EXCEPT !.encryptedData = <<BadChar>>]

\* localStorage is written from outside the service (another script of the
\* origin, the user): an entry becomes unparseable or its ciphertext invalid
Tamper(documentId, garbage) ==
    /\ ops < MaxOps
    /\ ops' = ops + 1
    /\ localStorage[CacheKey(documentId)].kind = "json"
    /\ localStorage' = [localStorage EXCEPT ![CacheKey(documentId)] =
                           IF garbage THEN Garbage ELSE BadBase64(@)]
    /\ encryptedUnder' = Forget(documentId)
    /\ last' = NoOutcome
    /\ UNCHANGED <<sessionKey, now, calls, nextKey, store>>
    /\ UNCHANGED <<authVars, hash, docVars, inFlightAtClear>>

\* the page is reloaded: the modules are constructed again (sessionKey =
\* null, nothing in flight, initial store, nobody logged in, empty audit
\* log, the components mounted afresh); localStorage persists
Reload ==
    /\ ops < MaxOps
    /\ ops' = ops + 1
    /\ sessionKey' = NoKey
    /\ calls' = EmptyBag
    /\ store' = InitialStore
    /\ last' = NoOutcome
    /\ UNCHANGED <<localStorage, now, nextKey, encryptedUnder>>
    /\ currentUser' = "null"
    /\ tokens' = NoTokens
    /\ events' = <<>>
    /\ docs' = NoDocuments
    /\ versionControl' = IdleComponent
    /\ inFlightAtClear' = EmptyBag
    /\ UNCHANGED <<issued, hash>>

----------------------------------------------------------------------------

\* one step of the program; Faults is the set of values the failure inputs
\* of the platform calls (storage, crypto) may take, Ids the document ids the
\* callers pass, Track whether the history of panic clears is kept
NextWith(Faults, Ids, Track) ==
    \/ InitializeSessionCall
    \/ \E c \in InFlight, fails \in Faults : GenerateKeyDone(c, fails)
    \/ \E id \in Ids, data \in DataInputs : CacheDocumentCall(id, data)
    \/ \E c \in InFlight : EncryptStart(c)
    \/ \E c \in InFlight, ef \in Faults, sf \in Faults :
          EncryptDone(c, ef, sf)
    \/ \E id \in Ids, gf \in Faults, rf \in Faults :
          GetCachedDocumentCall(id, gf, rf)
    \/ \E c \in InFlight, rf \in Faults : GetCachedDocumentDone(c, rf)
    \/ \E id \in Ids, rf \in Faults : RemoveCachedDocument(id, rf)
    \/ \E removed \in SUBSET PanicKeys, sf \in Faults :
          PanicClear(removed, sf) /\ ClearSeen(Track, sf)
    \/ \E removed \in SUBSET PanicKeys, sf \in Faults :
          StorePanicClearCall(removed, sf) /\ ClearSeen(Track, sf)
    \/ \E c \in InFlight, f \in Faults :
          \E fault \in IF f THEN {"removeItem", "sessionStorage"}
                            ELSE {"none"} :
             StorePanicClearDone(c, fault)
    \/ \E dt \in {SESSION_DURATION, SESSION_DURATION + 1} : Tick(dt)
    \/ \E id \in Ids, g \in BOOLEAN : Tamper(id, g)
    \/ Reload

\* the platform calls succeed
Next == NextWith({FALSE}, DocIds, FALSE)

Spec == Init /\ [][Next]_vars

\* the platform calls may throw
NextFaults == NextWith(BOOLEAN, DocIds, FALSE)

SpecFaults == Init /\ [][NextFaults]_vars

\* a caller passes the empty string as documentId
NextEmptyId == NextWith({FALSE}, {EmptyId, "doc-1"}, FALSE)

SpecEmptyId == Init /\ [][NextEmptyId]_vars

\* one document id, with the calls in flight at a panic clear recorded
NextRace == NextWith({FALSE}, {"doc-1"}, TRUE)

SpecRace == Init /\ [][NextRace]_vars

\* signing in and out, the store, and the store's panic clear
NextAuthWith(Faults) ==
    \/ \E email \in Emails : LoginCall(email)
    \/ \E c \in InFlight : LoginOidcDone(c)
    \/ \E c \in InFlight : LoginMfaDone(c)
    \/ \E c \in InFlight : LoginAuditDone(c)
    \/ \E sf \in Faults : LogoutCall(sf)
    \/ \E c \in InFlight, sf \in Faults : LogoutAuditDone(c, sf)
    \/ RefreshToken
    \/ \E user \in UserIds \cup {"null"} : SetUser(user)
    \/ \E id \in DocIds, content \in FileContents : AddDocument(id, content)
    \/ \E id \in DocIds : SetCurrentDocument(id)
    \/ \E removed \in SUBSET StorageKeys, sf \in Faults :
          StorePanicClearCall(removed, sf) /\ ClearSeen(FALSE, sf)
    \/ \E c \in InFlight, f \in Faults :
          \E fault \in IF f THEN {"removeItem", "sessionStorage"}
                            ELSE {"none"} :
             StorePanicClearDone(c, fault)

NextAuth == NextAuthWith({FALSE})

SpecAuth == Init /\ [][NextAuth]_vars

\* a user of the store, the documents and their version control
NextVersions ==
    \/ \E user \in UserIds \cup {"null"} : SetUser(user)
    \/ \E id \in DocIds, content \in FileContents : AddDocument(id, content)
    \/ \E id \in DocIds : SetCurrentDocument(id)
    \/ HandleCreateWorkingVersion
    \/ CreateWorkingAuditDone
    \/ HandleApproveVersion
    \/ ApproveHashDone
    \/ ApproveFinalizeDone
    \/ ApproveAuditDone
    \/ \E versionType \in VersionTypes : HandleSwitchVersion(versionType)

SpecVersions == Init /\ [][NextVersions]_vars

\* the integrity hashes of document bytes
NextHash ==
    \/ \E data \in HashInputs : GenerateHashCall(data)
    \/ \E data \in HashInputs : VerifyHashCall(data)

SpecHash == Init /\ [][NextHash]_vars


----------------------------------------------------------------------------
(* Properties *)

\* the calls started by a step
NewCalls == {c \in BagToSet(calls') : CopiesIn(c, calls') > CopiesIn(c, calls)}

\* the step is a call of getCachedDocument(id)
ReadCall(id) ==
    \E gf \in BOOLEAN, rf \in BOOLEAN : GetCachedDocumentCall(id, gf, rf)

\* the step is the completion of the getCachedDocument call c
ReadDone(c) == \E rf \in BOOLEAN : GetCachedDocumentDone(c, rf)

\* the step is a step of getCachedDocument
ReadStep ==
    \/ \E id \in DocIds : ReadCall(id)
    \/ \E c \in InFlight : ReadDone(c)

\* the last step completed cacheDocument(id, ...) successfully
Cached(id) ==
    last.op = "cacheDocument" /\ last.status = "resolved" /\ last.id = id

\* the last step completed getCachedDocument with null
ReadNull ==
    /\ last.op = "getCachedDocument"
    /\ last.status = "resolved"
    /\ last.code = "null"

\* C1: round trip.  When cacheDocument(id, d) has just completed successfully
\* and getCachedDocument(id) is called as the very next step, with the clock
\* not past the entry's expiresAt, the read decrypts to the bytes d that were
\* cached, and that is what it returns when it completes.
C1_RoundTrip ==
    [][ /\ \A id \in DocIds :
              ( /\ Cached(id)
                /\ now <= localStorage[CacheKey(id)].expiresAt
                /\ ReadCall(id) )
              => \E c \in NewCalls : /\ c.op = "getCachedDocument"
                                     /\ c.id = id
                                     /\ c.hit
                                     /\ c.out = last.bytes
        /\ \A c \in InFlight :
              (ReadDone(c) /\ c.hit)
              => /\ last'.op = "getCachedDocument"
                 /\ last'.status = "resolved"
                 /\ last'.code = "hit"
                 /\ last'.bytes = c.out
      ]_vars

\* C2: panic clear is total.  Right after a panicClear that completed
\* successfully, no cache entry is listed, there is no session key, and every
\* document id reads as a miss; a getCachedDocument called next returns null.
C2_PanicClearTotal ==
    /\ []( (last.op = "panicClear" /\ last.status = "resolved")
           => /\ getCachedDocumentIds = {}
              /\ ~getSessionInfo.hasKey
              /\ \A id \in DocIds :
                    ReadBranch(localStorage[CacheKey(id)], FALSE, now) = "miss" )
    /\ [][ \A id \in DocIds :
              ( /\ last.op = "panicClear" /\ last.status = "resolved"
                /\ ReadCall(id) )
              => /\ last'.op = "getCachedDocument"
                 /\ last'.status = "resolved"
                 /\ last'.code = "null"
         ]_vars

\* a successful panic clear that wiped both documents and destroyed a key
C2_Witness ==
    /\ last.op = "panicClear"
    /\ last.status = "resolved"
    /\ last.wiped = DocIds
    /\ nextKey > 0

\* C3: a read hits only under the key the entry was encrypted with.  A
\* getCachedDocument call decrypts successfully only if the session key it
\* reads is the key that was handed to the cipher for the stored entry; a read
\* returns a hit only if its decryption succeeded; and the session key only
\* ever changes to absent or to a key never used before, so a replaced or
\* destroyed key never comes back.
C3_HitOnlyUnderEncryptingKey ==
    [][ /\ \A c \in NewCalls :
              (c.op = "getCachedDocument" /\ c.hit)
              => /\ sessionKey # NoKey
                 /\ c.key = sessionKey
                 /\ encryptedUnder[c.id] = sessionKey.key
        /\ ( /\ calls' # calls
             /\ last'.op = "getCachedDocument"
             /\ last'.code = "hit" )
           => \E c \in InFlight : /\ c.op = "getCachedDocument"
                                  /\ c.hit
                                  /\ c.id = last'.id
                                  /\ CopiesIn(c, calls') < CopiesIn(c, calls)
        /\ sessionKey' # sessionKey
           => \/ sessionKey' = NoKey
              \/ sessionKey'.key > nextKey
      ]_vars

\* a read in flight that missed because the entry was encrypted under a key
\* that has since been replaced
C3_Witness ==
    \E c \in InFlight : /\ c.op = "getCachedDocument"
                        /\ ~c.hit
                        /\ c.key # NoKey
                        /\ encryptedUnder[c.id] # 0
                        /\ encryptedUnder[c.id] # c.key.key

\* C4: fail-to-miss on key rotation.  A getCachedDocument call that finds an
\* unexpired entry encrypted under another key than the current session key
\* fails to decrypt it; when the failed decryption settles, the read resolves
\* to null and the entry stored for the id is removed by that step.
C4_FailToMissOnRotation ==
    [][ /\ \A c \in NewCalls :
              ( /\ c.op = "getCachedDocument"
                /\ c.key # NoKey
                /\ encryptedUnder[c.id] # 0
                /\ encryptedUnder[c.id] # c.key.key )
              => ~c.hit
        /\ \A c \in InFlight :
              (ReadDone(c) /\ ~c.hit)
              => /\ last'.op = "getCachedDocument"
                 /\ last'.id = c.id
                 /\ last'.status = "resolved"
                 /\ last'.code = "null"
                 /\ localStorage'[CacheKey(c.id)] = NoEntry
                 /\ c.id \notin getCachedDocumentIds'
      ]_vars

\* a read returned null and removed an unexpired entry that the first session
\* key decrypts, while the second session key is the current one
C4_Witness ==
    /\ ReadNull
    /\ last.before.kind = "json"
    /\ now <= last.before.expiresAt
    /\ ~DecryptDataFails(NewSessionKey(1), last.before.encryptedData)
    /\ sessionKey = NewSessionKey(2)
    /\ localStorage[CacheKey(last.id)] = NoEntry

\* C5: lazy expiry.  An entry past its expiresAt stays listed by
\* getCachedDocumentIds until a step of getCachedDocument or
\* removeCachedDocument for its id, or a panic clear, takes it away; a
\* getCachedDocument call at a time strictly after expiresAt returns null at
\* once and the id is no longer listed; a call at a
\* time up to and including expiresAt does not treat the entry as expired: it
\* leaves storage alone and goes on to decrypt.
C5_LazyExpiry ==
    [][ /\ \A id \in DocIds :
              ( /\ localStorage[CacheKey(id)].kind = "json"
                /\ Expired(localStorage[CacheKey(id)], now)
                /\ id \notin getCachedDocumentIds' )
              => \/ last'.op = "panicClear"
                 \/ /\ last'.op \in {"getCachedDocument",
                                     "removeCachedDocument"}
                    /\ last'.id = id
        /\ \A id \in DocIds :
              ( /\ localStorage[CacheKey(id)].kind = "json"
                /\ now > localStorage[CacheKey(id)].expiresAt
                /\ ReadCall(id) )
              => /\ last'.op = "getCachedDocument"
                 /\ last'.id = id
                 /\ last'.status = "resolved"
                 /\ last'.code = "null"
                 /\ id \notin getCachedDocumentIds'
        /\ \A id \in DocIds :
              ( /\ localStorage[CacheKey(id)].kind = "json"
                /\ now <= localStorage[CacheKey(id)].expiresAt
                /\ ReadCall(id) )
              => /\ localStorage' = localStorage
                 /\ \E c \in NewCalls : c.op = "getCachedDocument" /\ c.id = id
      ]_vars

\* a read returned null and removed an entry that the current session key
\* still decrypts, one millisecond after its expiresAt
C5_Witness ==
    /\ ReadNull
    /\ last.before.kind = "json"
    /\ now = last.before.expiresAt + 1
    /\ ~DecryptDataFails(sessionKey, last.before.encryptedData)
    /\ last.id \notin getCachedDocumentIds

\* C6: a read of an id with no persisted entry returns null, and no step of
\* getCachedDocument creates a cache entry or touches the session key.
C6_ReadCreatesNothing ==
    [][ /\ \A id \in DocIds :
              ( /\ localStorage[CacheKey(id)].kind = "none"
                /\ ReadCall(id) )
              => /\ last'.op = "getCachedDocument"
                 /\ last'.id = id
                 /\ last'.status = "resolved"
                 /\ last'.code = "null"
                 /\ calls' = calls
        /\ ReadStep
           => /\ sessionKey' = sessionKey
              /\ nextKey' = nextKey
              /\ getSessionInfo' = getSessionInfo
              /\ StoredKeys' \subseteq StoredKeys
      ]_vars

\* after a key existed and was destroyed, a read of an id with no entry
\* returned null and there is still no key
C6_Witness ==
    /\ ReadNull
    /\ last.before.kind = "none"
    /\ nextKey > 0
    /\ ~getSessionInfo.hasKey
    /\ getCachedDocumentIds = {}

\* C7: cacheDocument overwrites.  When cacheDocument(id, d2) has just
\* completed within the current session and the entry it replaced held d1 # d2
\* of the same session, exactly one storage key holds an entry for id and the
\* stored entry decrypts under the session key to d2; a getCachedDocument(id)
\* called next (entry not expired) decrypts to d2.
C7_Overwrites ==
    /\ []( \A id \in DocIds :
            ( /\ Cached(id)
              /\ sessionKey # NoKey
              /\ encryptedUnder[id] = sessionKey.key
              /\ last.before.kind = "json"
              /\ ~DecryptDataFails(sessionKey, last.before.encryptedData)
              /\ DecryptData(sessionKey, last.before.encryptedData)
                    # last.bytes )
            => /\ Cardinality({k \in StoredKeys :
                      StartsWithPrefix(k) /\ StripPrefix(k) = id}) = 1
               /\ ~DecryptDataFails(sessionKey,
                      localStorage[CacheKey(id)].encryptedData)
               /\ DecryptData(sessionKey,
                      localStorage[CacheKey(id)].encryptedData) = last.bytes )
    /\ [][ \A id \in DocIds :
            ( /\ Cached(id)
              /\ sessionKey # NoKey
              /\ encryptedUnder[id] = sessionKey.key
              /\ last.before.kind = "json"
              /\ now <= localStorage[CacheKey(id)].expiresAt
              /\ ReadCall(id) )
            => \E c \in NewCalls : /\ c.op = "getCachedDocument"
                                   /\ c.id = id
                                   /\ c.hit
                                   /\ c.out = last.bytes
         ]_vars

\* a second cacheDocument for the id has just replaced an entry of the same
\* session that held other bytes
C7_Witness ==
    /\ last.op = "cacheDocument"
    /\ last.status = "resolved"
    /\ sessionKey # NoKey
    /\ encryptedUnder[last.id] = sessionKey.key
    /\ last.before.kind = "json"
    /\ ~DecryptDataFails(sessionKey, last.before.encryptedData)
    /\ DecryptData(sessionKey, last.before.encryptedData) # last.bytes

\* C8: a failed write leaves no entry.  Every rejection of cacheDocument
\* carries the code CACHE_FAILED, whether key generation failed, encryption
\* failed or setItem threw, and no step of a cacheDocument call other than its
\* successful completion changes localStorage.
C8_FailedWriteLeavesNoEntry ==
    [][ /\ ( /\ calls' # calls
             /\ last'.op = "cacheDocument"
             /\ last'.status = "rejected" )
           => /\ last'.code = "CACHE_FAILED"
              /\ localStorage' = localStorage
        /\ \A c \in InFlight :
              ( /\ c.op = "cacheDocument"
                /\ \/ GenerateKeyDone(c, TRUE)
                   \/ \E ef \in BOOLEAN, sf \in BOOLEAN :
                         (ef \/ sf) /\ EncryptDone(c, ef, sf) )
              => /\ last'.op = "cacheDocument"
                 /\ last'.id = c.id
                 /\ last'.status = "rejected"
                 /\ last'.code = "CACHE_FAILED"
        /\ ( \/ \E id \in DocIds, d \in DataInputs : CacheDocumentCall(id, d)
             \/ \E c \in InFlight :
                   /\ c.op = "cacheDocument"
                   /\ \/ \E f \in BOOLEAN : GenerateKeyDone(c, f)
                      \/ EncryptStart(c) )
           => localStorage' = localStorage
      ]_vars

\* a cacheDocument call was rejected and the entry cached earlier for the
\* same id is still the stored one
C8_Witness ==
    /\ last.op = "cacheDocument"
    /\ last.status = "rejected"
    /\ last.code = "CACHE_FAILED"
    /\ last.before.kind = "json"
    /\ localStorage[CacheKey(last.id)] = last.before

\* C9: the read path never surfaces an error: whatever the stored value, the
\* session key and the storage layer do, getCachedDocument resolves (to bytes
\* or null) and never rejects.
C9_ReadNeverRejects ==
    last.op = "getCachedDocument" => last.status = "resolved"

\* C10: a failed panic clear is surfaced.  encryptionService.panicClear
\* resolves whenever the storage layer does not throw, and a rejection carries
\* the code PANIC_CLEAR_FAILED; when it rejects inside useAppStore.panicClear,
\* the store's panicClear rejects with that same error and leaves the store
\* state as it was; it reports success only if the service's panicClear
\* succeeded.
C10_FailedPanicClearSurfaced ==
    /\ []( (last.op = "panicClear" /\ last.status = "rejected")
            => last.code = "PANIC_CLEAR_FAILED" )
    /\ [][ /\ \A removed \in SUBSET PanicKeys :
                ( \/ PanicClear(removed, FALSE)
                  \/ StorePanicClearCall(removed, FALSE) )
                => last'.op = "panicClear" /\ last'.status = "resolved"
           /\ \A c \in InFlight, f \in {"none", "removeItem", "sessionStorage"} :
                (StorePanicClearDone(c, f) /\ ~c.hit)
                => /\ last'.op = "store.panicClear"
                   /\ last'.status = "rejected"
                   /\ last'.code = "PANIC_CLEAR_FAILED"
                   /\ store' = store
           /\ ( /\ calls' # calls
                /\ last'.op = "store.panicClear"
                /\ last'.status = "resolved" )
              => \E c \in InFlight : c.op = "store.panicClear" /\ c.hit
         ]_vars

\* the store's panicClear was rejected with the service's error while a
\* session key and a cache entry survive
C10_Witness ==
    /\ last.op = "store.panicClear"
    /\ last.status = "rejected"
    /\ last.code = "PANIC_CLEAR_FAILED"
    /\ getSessionInfo.hasKey
    /\ getCachedDocumentIds # {}

\* C11: panicClear does not throw for nothing to clear.  Called with no cache
\* entry stored and no session key (as right after a successful panicClear),
\* panicClear completes successfully and leaves storage and the absent key as
\* they were.
C11_PanicClearIdempotent ==
    [][ \A removed \in SUBSET StorageKeys :
          ( /\ getCachedDocumentIds = {}
            /\ ~getSessionInfo.hasKey
            /\ \/ PanicClear(removed, FALSE)
               \/ StorePanicClearCall(removed, FALSE) )
          => /\ last'.op = "panicClear"
             /\ last'.status = "resolved"
             /\ localStorage' = localStorage
             /\ sessionKey' = sessionKey
             /\ getCachedDocumentIds' = {}
             /\ ~getSessionInfo'.hasKey
      ]_vars

\* a panicClear completed successfully although no key was ever generated and
\* it found no entry to remove
C11_Witness ==
    /\ last.op = "panicClear"
    /\ last.status = "resolved"
    /\ last.wiped = {}
    /\ nextKey = 0
    /\ StoredKeys = {}

\* C12: removeCachedDocument is unconditional and idempotent.  It completes
\* without error whether or not an entry for the id exists; afterwards no
\* entry for the id exists; the values stored under every other key and the
\* session key are unchanged; and when no entry existed (as after a first
\* removal) it changes nothing at all.
C12_RemoveIdempotent ==
    [][ \A id \in DocIds :
          RemoveCachedDocument(id, FALSE)
          => /\ last'.op = "removeCachedDocument"
             /\ last'.id = id
             /\ last'.status = "resolved"
             /\ localStorage'[CacheKey(id)] = NoEntry
             /\ id \notin getCachedDocumentIds'
             /\ \A k \in StorageKeys \ {CacheKey(id)} :
                   localStorage'[k] = localStorage[k]
             /\ sessionKey' = sessionKey
             /\ localStorage[CacheKey(id)] = NoEntry
                => localStorage' = localStorage
      ]_vars

\* removeCachedDocument completed for an id that had no entry, while another
\* id is cached and the session key is in place
C12_Witness ==
    /\ last.op = "removeCachedDocument"
    /\ last.status = "resolved"
    /\ last.before.kind = "none"
    /\ getCachedDocumentIds # {}
    /\ getSessionInfo.hasKey

\* C13: documentId must not be empty.  No entry whose documentId is the empty
\* string is ever persisted, so a cacheDocument call with an empty documentId
\* creates no entry in storage.
C13_NoEmptyDocumentId ==
    /\ EmptyId \notin getCachedDocumentIds
    /\ \A k \in StoredKeys : localStorage[k].documentId # EmptyId

\* the step is a step of some cacheDocument call
CacheStep ==
    \/ \E id \in AllIds, d \in DataInputs : CacheDocumentCall(id, d)
    \/ \E c \in InFlight :
          /\ c.op = "cacheDocument"
          /\ \/ \E f \in BOOLEAN : GenerateKeyDone(c, f)
             \/ EncryptStart(c)
             \/ \E ef \in BOOLEAN, sf \in BOOLEAN : EncryptDone(c, ef, sf)

\* C14: initializeSession always replaces.  When a call of initializeSession
\* succeeds, the session key afterwards is one never installed before, its
\* sessionId differs from the previous one, getSessionInfo reports a key and
\* a sessionId, and every stored entry, those encrypted under the previous
\* key included, fails to decrypt under the new key.
C14_InitializeReplaces ==
    [][ \A c \in InFlight :
          (c.op = "initializeSession" /\ GenerateKeyDone(c, FALSE))
          => /\ sessionKey' # NoKey
             /\ sessionKey' # sessionKey
             /\ sessionKey'.key > nextKey
             /\ sessionKey'.sessionId # sessionKey.sessionId
             /\ sessionKey'.sessionId > nextKey
             /\ getSessionInfo'.hasKey
             /\ getSessionInfo'.sessionId # 0
             /\ \A id \in DocIds :
                   localStorage'[CacheKey(id)].kind = "json"
                   => DecryptDataFails(sessionKey',
                          localStorage'[CacheKey(id)].encryptedData)
      ]_vars

\* initializeSession has just succeeded for the second time, and an entry
\* that the first key decrypts is stored and fails to decrypt under the
\* second
C14_Witness ==
    /\ last.op = "initializeSession"
    /\ last.status = "resolved"
    /\ sessionKey = NewSessionKey(2)
    /\ \E id \in DocIds :
          /\ localStorage[CacheKey(id)].kind = "json"
          /\ encryptedUnder[id] = 1
          /\ ~DecryptDataFails(NewSessionKey(1),
                  localStorage[CacheKey(id)].encryptedData)
          /\ DecryptDataFails(sessionKey,
                 localStorage[CacheKey(id)].encryptedData)

\* C15: lazy initialization creates a key only when none exists.  No step of
\* a cacheDocument call taken while a session key exists changes the session
\* key: cacheDocument installs a key only when there is none at that moment.
C15_LazyInitOnlyWhenAbsent ==
    [][ (CacheStep /\ sessionKey # NoKey) => sessionKey' = sessionKey ]_vars

C17_FailedLoginChangesNothing ==
    [][ /\ \A email \in Emails :
              (FindUser(email) = "null" /\ LoginCall(email))
              => UNCHANGED <<currentUser, tokens, events>>
        /\ \A c \in InFlight :
              ( /\ c.op = "login"
                /\ FindUser(c.id) = "null"
                /\ \/ LoginOidcDone(c)
                   \/ LoginMfaDone(c)
                   \/ LoginAuditDone(c) )
              => /\ last'.op = "login"
                 /\ last'.id = c.id
                 /\ last'.status = "rejected"
                 /\ last'.code = "AUTH_FAILED"
                 /\ CopiesIn(c, calls') < CopiesIn(c, calls)
                 /\ UNCHANGED <<currentUser, tokens, events>>
                 /\ isAuthenticated' = isAuthenticated
      ]_vars

\* a login with the unknown email was rejected while the user signed in
\* before is still signed in and the audit log holds that one login only
C17_Witness ==
    /\ last.op = "login"
    /\ last.status = "rejected"
    /\ last.code = "AUTH_FAILED"
    /\ FindUser(last.id) = "null"
    /\ isAuthenticated
    /\ Len(events) = 1
    /\ events[1].action = "auth.login"

\* C18: logout clears the session.  When logout completes, isAuthenticated
\* is false, getCurrentUser is null and getAccessToken is null, whatever the
\* state before; and a call of logout records an auth.logout event, for the
\* user then signed in, exactly when a user is signed in at the call; its
\* completion records nothing more.
C18_LogoutClears ==
    [][ /\ ( \/ \E c \in InFlight : LogoutAuditDone(c, FALSE)
             \/ (currentUser = "null" /\ LogoutCall(FALSE)) )
           => /\ last'.op = "logout"
              /\ last'.status = "resolved"
              /\ ~isAuthenticated'
              /\ getCurrentUser' = "null"
              /\ getAccessToken' = 0
        /\ LogoutCall(FALSE)
           => /\ currentUser # "null"
                 => /\ Len(events') = Len(events) + 1
                    /\ events'[1] = [userId |-> currentUser,
                                     action |-> "auth.logout"]
                    /\ SubSeq(events', 2, Len(events')) = events
              /\ currentUser = "null" => events' = events
        /\ (\E c \in InFlight : LogoutAuditDone(c, FALSE))
           => events' = events
      ]_vars

\* a logout has completed for a user who had signed in: nobody is signed in
\* and the newest audit event is that user's auth.logout
C18_Witness ==
    /\ last.op = "logout"
    /\ last.status = "resolved"
    /\ ~isAuthenticated
    /\ getAccessToken = 0
    /\ Len(events) = 2
    /\ events[1].action = "auth.logout"
    /\ events[2].action = "auth.login"
    /\ events[1].userId = events[2].userId

\* C19: permission check.  hasPermission(resource, action) of the AuthService
\* is true exactly when a user is signed in and the permission list of that
\* user's role holds an entry for the resource and action that is granted;
\* it is false for everything when nobody is signed in; and for a signed-in
\* user it agrees with hasPermission of utils/permissions.
C19_PermissionCheck ==
    \A resource \in Resources, action \in Actions :
        /\ hasPermission(resource, action)
           <=> /\ currentUser # "null"
               /\ [resource |-> resource, action |-> action, granted |-> TRUE]
                     \in {ROLE_PERMISSIONS[RoleOf(currentUser)][i] :
                              i \in 1..Len(ROLE_PERMISSIONS[RoleOf(currentUser)])}
        /\ currentUser = "null" => ~hasPermission(resource, action)
        /\ currentUser # "null"
           => ( hasPermission(resource, action)
                <=> utilsHasPermission(RoleOf(currentUser), resource, action) )

\* the viewer is signed in: allowed to view documents, not to upload them
\* although the role has an entry for uploading
C19_Witness ==
    /\ currentUser = "1"
    /\ isAuthenticated
    /\ hasPermission("document", "view")
    /\ ~hasPermission("document", "upload")
    /\ ~hasPermission("version", "approve")

\* C20: panic clear signs the user out.  When the store's panicClear has
\* completed successfully, the store has no user, is not authenticated, has
\* no documents and no current document, and the AuthService is not
\* authenticated either.
C20_PanicClearSignsOut ==
    (last.op = "store.panicClear" /\ last.status = "resolved")
    => /\ store.user = "null"
       /\ ~store.isAuthenticated
       /\ store.documents = {}
       /\ store.currentDocument = "null"
       /\ ~isAuthenticated

\* a final version appears in the versions of document id in this step
FinalAdded(id) ==
    /\ ~HasVersion(docs[id].versions, "final")
    /\ HasVersion(docs'[id].versions, "final")

\* C21: only approvers can finalize.  A step adds a 'final' version to a
\* document only as part of a handleApproveVersion that a user with the
\* approver role started for that document, only when the document already
\* has a 'working' version, and it makes 'final' the current version;
\* currentVersion becomes 'final' only for a document that has a final
\* version; and handleApproveVersion called with no user, a viewer or a
\* redactor changes no document, starts no processing and logs nothing.
C21_OnlyApproversFinalize ==
    [][ /\ \A id \in DocIds :
              FinalAdded(id)
              => /\ versionControl.handler = "handleApproveVersion"
                 /\ versionControl.document = id
                 /\ versionControl.user # "null"
                 /\ RoleOf(versionControl.user) = "approver"
                 /\ HasVersion(docs[id].versions, "working")
                 /\ docs'[id].currentVersion = "final"
        /\ \A id \in DocIds :
              ( /\ docs[id].currentVersion # "final"
                /\ docs'[id].currentVersion = "final" )
              => HasVersion(docs'[id].versions, "final")
        /\ ( /\ HandleApproveVersion
             /\ \/ store.user = "null"
                \/ RoleOf(store.user) \in {"viewer", "redactor"} )
           => /\ UNCHANGED <<docs, versionControl, store, events, hash>>
              /\ last'.op = "handleApproveVersion"
              /\ last'.status = "returned"
      ]_vars

\* an approver has finalized the current document: handleApproveVersion has
\* ended and the document has its working and its final version, the final
\* one current
C21_Witness ==
    /\ last.op = "handleApproveVersion"
    /\ last.status = "done"
    /\ store.user # "null"
    /\ RoleOf(store.user) = "approver"
    /\ HasVersion(docs[last.id].versions, "working")
    /\ HasVersion(docs[last.id].versions, "final")
    /\ docs[last.id].currentVersion = "final"

\* the step is a run of encryptionService.panicClear
ClearStep == last'.op = "panicClear" /\ ops' = ops + 1

\* C22: the known race of panic clear with a write in flight.  panicClear
\* does not wait for the cacheDocument calls in flight: its step leaves each
\* of them in flight as it was, and a cacheDocument call that resumes from its
\* encryption with a session key present stores its entry whether or not a
\* panic clear ran since it started.  (The interleaving itself, a successful
\* panic clear followed by the write of a call that was in flight, is the
\* state C22_Witness.)
C22_PanicClearDoesNotDrain ==
    [][ /\ ClearStep
           => \A c \in InFlight :
                 c.op = "cacheDocument"
                 => CopiesIn(c, calls') = CopiesIn(c, calls)
        /\ \A c \in InFlight :
              (EncryptDone(c, FALSE, FALSE) /\ sessionKey # NoKey)
              => /\ last'.op = "cacheDocument"
                 /\ last'.status = "resolved"
                 /\ c.id \in getCachedDocumentIds'
      ]_vars

\* the only cacheDocument call of the behaviour was in flight when a panic
\* clear finished successfully, and has written its entry since: an entry is
\* listed and a session key is present after the panic clear
C22_Witness ==
    /\ ops = 2
    /\ calls = EmptyBag
    /\ last.op = "cacheDocument"
    /\ last.status = "resolved"
    /\ \E c \in BagToSet(inFlightAtClear) :
          c.op = "cacheDocument" /\ c.id = last.id
    /\ last.id \in getCachedDocumentIds
    /\ getSessionInfo.hasKey

\* the bytes that were encrypted into the entry stored for id
Plaintext(id) ==
    DecryptData(NewSessionKey(encryptedUnder[id]),
                localStorage[CacheKey(id)].encryptedData)

\* the behaviour so far is cacheDocument(a, da) and cacheDocument(b, db) for
\* the two ids, started on the freshly constructed service and interleaved
\* in some way, and both have completed successfully
BothCached ==
    /\ ops = 2
    /\ calls = EmptyBag
    /\ \A id \in DocIds : /\ localStorage[CacheKey(id)].kind = "json"
                          /\ encryptedUnder[id] # 0

\* C23: operations on different ids are independent under interleaving.
\* Once cacheDocument(a, da) and cacheDocument(b, db), started with no session
\* key yet and interleaved at their awaits, have both completed successfully,
\* a getCachedDocument called next for either id decrypts to the bytes that
\* were cached for it.
C23_DifferentIdsIndependent ==
    [][ \A id \in DocIds :
            (BothCached /\ ReadCall(id))
            => \E c \in NewCalls : /\ c.op = "getCachedDocument"
                                   /\ c.id = id
                                   /\ c.hit
                                   /\ c.out = Plaintext(id)
      ]_vars

\* C24: last write wins for the same id.  Whenever a cacheDocument call
\* completes its storage write, races with other calls for the same id
\* included, the value stored for its id afterwards is exactly the record that
\* call built (its ciphertext, the iv and the dates it computed), nothing of
\* the value stored before remains, there is exactly one entry for the id,
\* and no other key of the storage changes.
C24_LastWriteWins ==
    [][ \A c \in InFlight :
            (EncryptDone(c, FALSE, FALSE) /\ sessionKey # NoKey)
            => /\ localStorage' =
                     [localStorage EXCEPT ![CacheKey(c.id)] =
                         CacheRecord(c.id, EncryptData(c.key, c.bytes),
                                     sessionKey, now)]
               /\ Cardinality({k \in StoredKeys' :
                      StartsWithPrefix(k) /\ StripPrefix(k) = c.id}) = 1
      ]_vars

\* two cacheDocument calls for one id, both started before any session key
\* existed, have both completed: the second write replaced the entry of the
\* first, which held another ciphertext
C24_Witness ==
    /\ ops = 2
    /\ nextKey = 2
    /\ calls = EmptyBag
    /\ last.op = "cacheDocument"
    /\ last.status = "resolved"
    /\ last.before.kind = "json"
    /\ localStorage[CacheKey(last.id)].kind = "json"
    /\ localStorage[CacheKey(last.id)].encryptedData
          # last.before.encryptedData
    /\ Plaintext(last.id) = last.bytes

\* C25: every persisted entry records the IV that was used to encrypt it.  In
\* every reachable state, the iv field of an entry the service stored is the
\* base64 text of the IV that was passed to the cipher when the entry's
\* encryptedData was produced.
C25_StoredIvIsUsedIv ==
    \A id \in DocIds :
        ( /\ localStorage[CacheKey(id)].kind = "json"
          /\ encryptedUnder[id] # 0 )
        => localStorage[CacheKey(id)].iv
              = Base64Encode(NewSessionKey(encryptedUnder[id]).iv)

\* the entry stored for id is unexpired and decrypts under the current
\* session key
ValidEntry(id) ==
    /\ localStorage[CacheKey(id)].kind = "json"
    /\ now <= localStorage[CacheKey(id)].expiresAt
    /\ ~DecryptDataFails(sessionKey, localStorage[CacheKey(id)].encryptedData)

\* C26: a read only removes a bad entry.  No step of getCachedDocument(id),
\* neither its call nor its completion after the decryption, removes or
\* changes the entry stored for id when that entry is unexpired and
\* decryptable under the current session key.
C26_ReadKeepsValidEntry ==
    [][ /\ \A id \in DocIds :
              (ValidEntry(id) /\ ReadCall(id))
              => localStorage'[CacheKey(id)] = localStorage[CacheKey(id)]
        /\ \A c \in InFlight :
              (ValidEntry(c.id) /\ ReadDone(c))
              => localStorage'[CacheKey(c.id)] = localStorage[CacheKey(c.id)]
      ]_vars

\* C27: a write interrupted by panic clear during encryption is discarded.
\* When a cacheDocument call resumes from its encrypt step and there is no
\* session key (a panicClear ran while it was suspended and no session was
\* initialized since), the call rejects with CACHE_FAILED and the storage is
\* left as it is: nothing is written after the wipe.
C27_InterruptedWriteDiscarded ==
    [][ \A c \in InFlight :
            ( /\ c.op = "cacheDocument"
              /\ sessionKey = NoKey
              /\ \E ef \in BOOLEAN, sf \in BOOLEAN : EncryptDone(c, ef, sf) )
            => /\ last'.op = "cacheDocument"
               /\ last'.id = c.id
               /\ last'.status = "rejected"
               /\ last'.code = "CACHE_FAILED"
               /\ localStorage' = localStorage
               /\ getCachedDocumentIds' = getCachedDocumentIds
      ]_vars

\* a cacheDocument call that was suspended in its encrypt step when a panic
\* clear finished has been rejected, with no session key and no entry since
C27_Witness ==
    /\ ops = 2
    /\ last.op = "cacheDocument"
    /\ last.status = "rejected"
    /\ last.code = "CACHE_FAILED"
    /\ sessionKey = NoKey
    /\ calls = EmptyBag
    /\ \E c \in BagToSet(inFlightAtClear) :
          /\ c.op = "cacheDocument"
          /\ c.pc = "encrypt"
          /\ c.id = last.id
    /\ getCachedDocumentIds = {}

----------------------------------------------------------------------------
(* a failed initializeSession *)

\* C28: a failed initializeSession() leaves the session key state unchanged.
\* When key generation throws in a direct initializeSession() call, the call
\* rejects with code ENCRYPTION_INIT_FAILED, the installed key with its iv and
\* sessionId (or the absence of a key) is exactly as before, nothing stored
\* changes, and every entry that was unexpired and decryptable under the
\* existing key still is.
C28_FailedInitKeepsKey ==
    [][ \A c \in InFlight :
            (c.op = "initializeSession" /\ GenerateKeyDone(c, TRUE))
            => /\ last'.op = "initializeSession"
               /\ last'.status = "rejected"
               /\ last'.code = "ENCRYPTION_INIT_FAILED"
               /\ sessionKey' = sessionKey
               /\ nextKey' = nextKey
               /\ localStorage' = localStorage
               /\ \A id \in DocIds : ValidEntry(id) => ValidEntry(id)'
      ]_vars

\* an initializeSession() has just failed while a key was installed, and an
\* entry cached under that key is still decryptable
C28_Witness ==
    /\ last.op = "initializeSession"
    /\ last.status = "rejected"
    /\ last.code = "ENCRYPTION_INIT_FAILED"
    /\ sessionKey # NoKey
    /\ \E id \in DocIds :
          /\ ValidEntry(id)
          /\ encryptedUnder[id] = sessionKey.key

----------------------------------------------------------------------------
(* AuthService: currentUser and tokens *)

\* C29: auth state is never half-set.  In every state, that is between
\* operations and at every await of login, logout and refreshToken calls
\* interleaved in any order, currentUser is null if and only if tokens is
\* null, and so isAuthenticated() is true exactly when getCurrentUser() is
\* non-null.
C29_AuthNeverHalfSet ==
    /\ (currentUser = "null") <=> (tokens = NoTokens)
    /\ isAuthenticated <=> (getCurrentUser # "null")

\* a login has set the user and the tokens, and a logout called after it is
\* suspended at its audit await with both still set
C29_Witness ==
    /\ currentUser # "null"
    /\ tokens # NoTokens
    /\ isAuthenticated
    /\ \E c \in InFlight : c.op = "logout" /\ c.pc = "audit"

----------------------------------------------------------------------------
(* VersionControl: the versions of a document *)

\* the versions list of document id after the step begins with the list
\* before it
VersionsGrow(id) ==
    /\ Len(docs'[id].versions) >= Len(docs[id].versions)
    /\ SubSeq(docs'[id].versions, 1, Len(docs[id].versions))
           = docs[id].versions

\* the 'original' version of document id is present after the step with the
\* content and the hash it had before
OriginalKept(id) ==
    LET before == docs[id].versions
        after == docs'[id].versions
    IN /\ HasVersion(after, "original")
       /\ after[FindVersion(after, "original")].content
             = before[FindVersion(before, "original")].content
       /\ after[FindVersion(after, "original")].hash
             = before[FindVersion(before, "original")].hash

\* C30: the original version is always preserved.  Over any sequence of
\* create-working-version, finalize and switch-version actions, the versions
\* list of a document only grows, its 'original' version stays present with
\* unchanged content and hash, and currentVersion always names a version
\* type that exists in the versions list.
C30_OriginalPreserved ==
    /\ [](\A id \in DocIds :
             docs[id] # NoDocument
             => /\ HasVersion(docs[id].versions, "original")
                /\ HasVersion(docs[id].versions, docs[id].currentVersion))
    /\ [][ \A id \in DocIds :
               docs[id] # NoDocument => VersionsGrow(id) /\ OriginalKept(id)
         ]_vars

\* a document went through create-working-version, finalize and a switch
\* back to the original: it has the three versions in the order they were
\* made, all with the uploaded content, and shows the original
C30_Witness ==
    \E id \in DocIds :
       LET d == docs[id]
       IN /\ Len(d.versions) = 3
          /\ d.versions[1].type = "original"
          /\ d.versions[2].type = "working"
          /\ d.versions[3].type = "final"
          /\ d.versions[3].content = d.versions[1].content
          /\ d.currentVersion = "original"
          /\ last.op = "handleSwitchVersion"
          /\ last.status = "done"
          /\ ~versionControl.isProcessing

====
